---- MODULE Spec2Model ----
(***************************************************************************)
(* A state-machine model of folly/io/Compression.cpp: the Codec base       *)
(* contract, the four codec variants, the zlib streaming driver and the    *)
(* codec registry.                                                         *)
(*                                                                         *)
(* Representation.                                                         *)
(*  - A length (uint64_t) is a tuple of four 16-bit limbs, most            *)
(*    significant first, so that 2^64-1 and 2^64-2 are exact.              *)
(*  - A buffer's bytes are a run-length sequence << <<byte, count>>, ... >> *)
(*    in normal form (no empty run, adjacent runs differ), so that a       *)
(*    buffer of 64 MiB is one run and sizes are exact byte counts.         *)
(*  - An IOBuf chain is a non-empty sequence of such segments.             *)
(*  - The third-party algorithms (lz4, snappy, zlib) are small reversible  *)
(*    stand-ins that keep the call contracts the code relies on.           *)
(***************************************************************************)
EXTENDS Integers, Sequences, FiniteSets, TLC

(***************************************************************************)
(* Bounds of the model.                                                    *)
(***************************************************************************)
\* longest small input, in bytes
MaxLen == 2
\* most segments of a small input chain
MaxSegs == 3
\* capacity, in bytes, of the stand-in zlib's internal holding buffer
ZWindow == 1
\* the history stops counting the algorithm's calls of one call here
MaxAlgo == 24

Min(a, b) == IF a <= b THEN a ELSE b
Max(a, b) == IF a >= b THEN a ELSE b

(***************************************************************************)
(* uint64_t                                                                *)
(***************************************************************************)
Limb == 2^16

U64(n) == << 0, 0, n \div Limb, n % Limb >>

U64Less(a, b) ==
    \E i \in 1..4 : a[i] < b[i] /\ \A j \in 1..(i - 1) : a[j] = b[j]

U64Succ(a) ==
    IF a[4] < Limb - 1 THEN << a[1], a[2], a[3], a[4] + 1 >>
    ELSE IF a[3] < Limb - 1 THEN << a[1], a[2], a[3] + 1, 0 >>
    ELSE IF a[2] < Limb - 1 THEN << a[1], a[2] + 1, 0, 0 >>
    ELSE IF a[1] < Limb - 1 THEN << a[1] + 1, 0, 0, 0 >>
    ELSE << 0, 0, 0, 0 >>

U64Pred(a) ==
    IF a[4] > 0 THEN << a[1], a[2], a[3], a[4] - 1 >>
    ELSE IF a[3] > 0 THEN << a[1], a[2], a[3] - 1, Limb - 1 >>
    ELSE IF a[2] > 0 THEN << a[1], a[2] - 1, Limb - 1, Limb - 1 >>
    ELSE IF a[1] > 0 THEN << a[1] - 1, Limb - 1, Limb - 1, Limb - 1 >>
    ELSE << Limb - 1, Limb - 1, Limb - 1, Limb - 1 >>

\* the value fits TLC's integers
U64Small(a) == a[1] = 0 /\ a[2] = 0 /\ a[3] < 2^15
U64Nat(a) == a[3] * Limb + a[4]

\* static_cast<size_t>(int)
SizeT(i) == IF i >= 0 THEN U64(i) ELSE << Limb - 1, Limb - 1, Limb - 1, Limb + i >>

UINT64_MAX == << Limb - 1, Limb - 1, Limb - 1, Limb - 1 >>
UINT32_MAX == << 0, 0, Limb - 1, Limb - 1 >>

UNKNOWN_UNCOMPRESSED_LENGTH == UINT64_MAX

(***************************************************************************)
(* Bytes of a buffer, run-length coded.                                    *)
(***************************************************************************)
RECURSIVE RLen(_)
RLen(s) == IF s = << >> THEN 0 ELSE s[1][2] + RLen(Tail(s))

RECURSIVE RTake(_, _)
RTake(s, k) ==
    IF k <= 0 \/ s = << >> THEN << >>
    ELSE IF s[1][2] <= k THEN << s[1] >> \o RTake(Tail(s), k - s[1][2])
    ELSE << << s[1][1], k >> >>

RECURSIVE RDrop(_, _)
RDrop(s, k) ==
    IF k <= 0 \/ s = << >> THEN s
    ELSE IF s[1][2] <= k THEN RDrop(Tail(s), k - s[1][2])
    ELSE << << s[1][1], s[1][2] - k >> >> \o Tail(s)

RCat(a, b) ==
    IF a = << >> THEN b
    ELSE IF b = << >> THEN a
    ELSE IF a[Len(a)][1] = b[1][1]
         THEN SubSeq(a, 1, Len(a) - 1)
              \o << << b[1][1], a[Len(a)][2] + b[1][2] >> >>
              \o Tail(b)
         ELSE a \o b

\* a run of n equal bytes
RRun(b, n) == IF n <= 0 THEN << >> ELSE << << b, n >> >>

\* bytes of memory never written: their value is indeterminate
Indeterminate == -1

(***************************************************************************)
(* IOBuf chains                                                            *)
(***************************************************************************)
RECURSIVE computeChainDataLength(_)
computeChainDataLength(chain) ==
    IF chain = << >> THEN 0
    ELSE RLen(chain[1]) + computeChainDataLength(Tail(chain))

empty(chain) == \A i \in 1..Len(chain) : chain[i] = << >>

isChained(chain) == Len(chain) > 1

clone(chain) == chain

\* the bytes of the chain, in chain order
RECURSIVE ChainBytes(_)
ChainBytes(chain) ==
    IF chain = << >> THEN << >>
    ELSE RCat(chain[1], ChainBytes(Tail(chain)))

coalesce(chain) == << ChainBytes(chain) >>

\* IOBuf::create(0)
EmptyChain == << << >> >>

(***************************************************************************)
(* Stand-in for lz4 (lz4.h, lz4hc.h): a one-byte token naming the          *)
(* primitive that wrote the block, then one code per input byte.  As in    *)
(* lz4, the block does not record its own length, and LZ4_uncompress is    *)
(* told the output size and reports how many input bytes it read.          *)
(***************************************************************************)
RMap(F(_), s) == [i \in 1..Len(s) |-> << F(s[i][1]), s[i][2] >>]

\* length of the longest prefix of s whose bytes all satisfy P
RECURSIVE RPrefixLen(_, _)
RPrefixLen(P(_), s) ==
    IF s = << >> \/ ~P(s[1][1]) THEN 0 ELSE s[1][2] + RPrefixLen(P, Tail(s))

LZ4_TOKEN_FAST == 1
LZ4_TOKEN_HC == 2
LZ4Enc(b) == b + 128
LZ4Dec(c) == c - 128
LZ4IsCode(c) == c >= 128

LZ4_compressBound(isize) == isize + (isize \div 255) + 16

LZ4_compress(source) == RCat(RRun(LZ4_TOKEN_FAST, 1), RMap(LZ4Enc, source))

LZ4_compressHC(source) == RCat(RRun(LZ4_TOKEN_HC, 1), RMap(LZ4Enc, source))

\* n: input bytes read, negative on malformed input; overread: the decoder
\* ran past the end of the source buffer, whose size it is never told
LZ4_uncompress(source, osize) ==
    LET payload == RDrop(source, 1)
        v == RPrefixLen(LZ4IsCode, payload)
    IN  IF source = << >>
        THEN [n |-> 0, dest |-> << >>, overread |-> TRUE]
        ELSE IF source[1][1] \notin {LZ4_TOKEN_FAST, LZ4_TOKEN_HC}
        THEN [n |-> -1, dest |-> << >>, overread |-> FALSE]
        ELSE IF v >= osize
        THEN [n |-> 1 + osize,
              dest |-> RMap(LZ4Dec, RTake(payload, osize)),
              overread |-> FALSE]
        ELSE IF v < RLen(payload)
        THEN [n |-> -(1 + v), dest |-> << >>, overread |-> FALSE]
        ELSE [n |-> 0, dest |-> << >>, overread |-> TRUE]

(***************************************************************************)
(* Stand-in for snappy (snappy.h): the uncompressed length as a varint32,  *)
(* then one code per input byte.  The input is read through a              *)
(* snappy::Source (Available / Peek / Skip).                               *)
(***************************************************************************)
SnappyEnc(b) == (b + 64) % 128
SnappyDec(c) == (c + 64) % 128
SnappyIsCode(c) == c >= 0 /\ c < 128

MaxCompressedLength(n) == 32 + n + (n \div 6)

RECURSIVE Varint32(_)
Varint32(n) ==
    IF n < 128 THEN RRun(n, 1)
    ELSE RCat(RRun(128 + (n % 128), 1), Varint32(n \div 128))

\* [ok, value, used]: the varint32 at the head of bytes s
RECURSIVE ParseVarint32(_, _, _, _)
ParseVarint32(s, scale, acc, used) ==
    IF s = << >> \/ used >= 5 \/ s[1][1] < 0
    THEN [ok |-> FALSE, value |-> 0, used |-> used]
    ELSE IF s[1][1] < 128
    THEN [ok |-> TRUE, value |-> acc + s[1][1] * scale, used |-> used + 1]
    ELSE ParseVarint32(RDrop(s, 1), scale * 128,
                       acc + (s[1][1] - 128) * scale, used + 1)

(***************************************************************************)
(* io::Cursor over a chain: position = [buf, offset]                       *)
(***************************************************************************)
RECURSIVE CursorPeek(_, _)
CursorPeek(chain, c) ==
    IF RLen(chain[c.buf]) - c.offset = 0 /\ c.buf < Len(chain)
    THEN CursorPeek(chain, [buf |-> c.buf + 1, offset |-> 0])
    ELSE [cursor |-> c, span |-> RDrop(chain[c.buf], c.offset)]

RECURSIVE CursorSkip(_, _, _)
CursorSkip(chain, c, n) ==
    LET available == RLen(chain[c.buf]) - c.offset
    IN  IF available >= n \/ c.buf >= Len(chain)
        THEN [buf |-> c.buf, offset |-> c.offset + Min(n, available)]
        ELSE CursorSkip(chain, [buf |-> c.buf + 1, offset |-> 0], n - available)

(***************************************************************************)
(* IOBufSnappySource                                                       *)
(***************************************************************************)
IOBufSnappySource(chain) ==
    [available_ |-> computeChainDataLength(chain),
     cursor_ |-> [buf |-> 1, offset |-> 0]]

Available(source) == source.available_

Peek(chain, source) ==
    LET p == CursorPeek(chain, source.cursor_)
    IN  [source |-> [source EXCEPT !.cursor_ = p.cursor], span |-> p.span]

Skip(chain, source, n) ==
    [available_ |-> source.available_ - n,
     cursor_ |-> CursorSkip(chain, source.cursor_, n)]

\* what a reader that peeks and skips until nothing is available is handed
RECURSIVE SourceBytes(_, _)
SourceBytes(chain, source) ==
    LET p == Peek(chain, source)
    IN  IF Available(source) = 0 \/ p.span = << >> THEN << >>
        ELSE RCat(p.span,
                  SourceBytes(chain, Skip(chain, p.source, RLen(p.span))))

\* snappy::Compress(&source, &sink): the bytes written to the sink
snappy_Compress(chain, source) ==
    RCat(Varint32(Available(source)),
         RMap(SnappyEnc, SourceBytes(chain, source)))

\* snappy::GetUncompressedLength(&source, &result)
GetUncompressedLength(chain, source) ==
    LET v == ParseVarint32(SourceBytes(chain, source), 1, 0, 0)
    IN  [ok |-> v.ok, result |-> v.value]

\* snappy::RawUncompress(&source, dest)
RawUncompress(chain, source) ==
    LET bytes == SourceBytes(chain, source)
        v == ParseVarint32(bytes, 1, 0, 0)
        payload == RDrop(bytes, v.used)
    IN  IF v.ok /\ RLen(payload) = v.value
             /\ RPrefixLen(SnappyIsCode, payload) = v.value
        THEN [ok |-> TRUE, dest |-> RMap(SnappyDec, payload)]
        ELSE [ok |-> FALSE, dest |-> << >>]

(***************************************************************************)
(* Stand-in for zlib (zlib.h): one code per input byte and an end-of-      *)
(* stream mark.  Both directions hold up to ZWindow bytes inside the       *)
(* stream state, so output may lag input as it does in zlib; a call makes  *)
(* all the progress the input and the output space allow.                  *)
(***************************************************************************)
Z_EOS == 0
ZEnc(b) == 255 - b
ZDec(c) == 255 - c
ZIsCode(c) == c >= 128

Z_DEFAULT_COMPRESSION == -1

deflateBound(sourceLen) ==
    sourceLen + (sourceLen \div 2^12) + (sourceLen \div 2^14)
              + (sourceLen \div 2^25) + 13

\* the stream fields after deflateInit / inflateInit and lines 465-467 / 541-543
InitStream ==
    [next_in |-> << >>, avail_in |-> 0, next_out |-> 0, avail_out |-> 0,
     total_in |-> 0, total_out |-> 0,
     pending |-> << >>, eos |-> FALSE]

\* the bytes written at next_out go to the segment next_out points into
WriteOut(chain, idx, bytes) ==
    IF bytes = << >> THEN chain
    ELSE [chain EXCEPT ![idx].w = RCat(@, bytes)]

deflate(strm, chain, flush) ==
    LET room == Max((ZWindow - RLen(strm.pending)) + strm.avail_out, 0)
        c == IF flush = "Z_FINISH" THEN strm.avail_in
             ELSE Min(strm.avail_in, room)
        mark == IF flush = "Z_FINISH" /\ ~strm.eos THEN RRun(Z_EOS, 1) ELSE << >>
        buf == RCat(RCat(strm.pending, RMap(ZEnc, RTake(strm.next_in, c))), mark)
        o == IF flush = "Z_FINISH" THEN Min(RLen(buf), strm.avail_out)
             ELSE Min(Max(RLen(buf) - ZWindow, 0), strm.avail_out)
        pend == RDrop(buf, o)
        rc == IF flush = "Z_FINISH" /\ pend = << >> THEN "Z_STREAM_END"
              ELSE IF c = 0 /\ o = 0 THEN "Z_BUF_ERROR"
              ELSE "Z_OK"
    IN  [strm |-> [strm EXCEPT !.next_in = RDrop(@, c),
                               !.avail_in = @ - c,
                               !.avail_out = @ - o,
                               !.total_in = @ + c,
                               !.total_out = @ + o,
                               !.pending = pend,
                               !.eos = @ \/ flush = "Z_FINISH"],
         chain |-> WriteOut(chain, strm.next_out, RTake(buf, o)),
         rc |-> rc]

inflate(strm, chain) ==
    LET v == RPrefixLen(ZIsCode, strm.next_in)
        room == Max((ZWindow - RLen(strm.pending)) + strm.avail_out, 0)
        cd == IF strm.eos THEN 0 ELSE Min(v, room)
        rest == RDrop(strm.next_in, cd)
        atMark == ~strm.eos /\ cd = v /\ rest # << >>
        sawEos == atMark /\ rest[1][1] = Z_EOS
        bad == atMark /\ rest[1][1] # Z_EOS
        c == cd + (IF sawEos THEN 1 ELSE 0)
        buf == RCat(strm.pending, RMap(ZDec, RTake(strm.next_in, cd)))
        o == Min(RLen(buf), strm.avail_out)
        pend == RDrop(buf, o)
        rc == IF bad THEN "Z_DATA_ERROR"
              ELSE IF (strm.eos \/ sawEos) /\ pend = << >> THEN "Z_STREAM_END"
              ELSE IF c = 0 /\ o = 0 THEN "Z_BUF_ERROR"
              ELSE "Z_OK"
    IN  [strm |-> [strm EXCEPT !.next_in = RDrop(@, c),
                               !.avail_in = @ - c,
                               !.avail_out = @ - o,
                               !.total_in = @ + c,
                               !.total_out = @ + o,
                               !.pending = pend,
                               !.eos = @ \/ sawEos],
         chain |-> WriteOut(chain, strm.next_out, RTake(buf, o)),
         rc |-> rc]

(***************************************************************************)
(* Compression.h: codec types, level hints                                 *)
(***************************************************************************)
NO_COMPRESSION == 0
LZ4 == 1
SNAPPY == 2
ZLIB == 3
NUM_CODEC_TYPES == 4

\* A level is one of the three hints or a number.  The numbers the header
\* gives the hints are not part of Compression.cpp; the case labels of the
\* constructors' switches only show that they are distinct.
COMPRESSION_LEVEL_FASTEST == [kind |-> "FASTEST", n |-> 0]
COMPRESSION_LEVEL_DEFAULT == [kind |-> "DEFAULT", n |-> 0]
COMPRESSION_LEVEL_BEST == [kind |-> "BEST", n |-> 0]
Numeric(n) == [kind |-> "NUMERIC", n |-> n]

(***************************************************************************)
(* Outcomes of a call                                                      *)
(***************************************************************************)
Return(chain) == [status |-> "ok", what |-> "", out |-> chain]
Throw(exception, what) == [status |-> exception, what |-> what, out |-> << >>]
\* a failed CHECK aborts the process
CheckFailed(what) == [status |-> "check_failed", what |-> what, out |-> << >>]
\* the call goes on into the variant's routine
Delegate == [status |-> "delegate", what |-> "", out |-> << >>]

NullCodec == [present |-> FALSE, class |-> "", level_ |-> 0,
              highCompression_ |-> FALSE]

(***************************************************************************)
(* Constructors: [ok, codec], ok = FALSE when the constructor throws       *)
(* std::invalid_argument                                                   *)
(***************************************************************************)
NoCompressionLevel(level) ==
    IF level.kind \in {"DEFAULT", "FASTEST", "BEST"} THEN 0 ELSE level.n

NoCompressionCodec(level) ==
    IF NoCompressionLevel(level) # 0
    THEN [ok |-> FALSE, what |-> "NoCompressionCodec: invalid level", codec |-> NullCodec]
    ELSE [ok |-> TRUE, what |-> "",
          codec |-> [present |-> TRUE, class |-> "NoCompressionCodec",
                     level_ |-> 0, highCompression_ |-> FALSE]]

LZ4Level(level) ==
    IF level.kind \in {"FASTEST", "DEFAULT"} THEN 1
    ELSE IF level.kind = "BEST" THEN 2
    ELSE level.n

LZ4Codec(level) ==
    IF LZ4Level(level) < 1 \/ LZ4Level(level) > 2
    THEN [ok |-> FALSE, what |-> "LZ4Codec: invalid level", codec |-> NullCodec]
    ELSE [ok |-> TRUE, what |-> "",
          codec |-> [present |-> TRUE, class |-> "LZ4Codec", level_ |-> 0,
                     highCompression_ |-> (LZ4Level(level) > 1)]]

SnappyLevel(level) ==
    IF level.kind \in {"FASTEST", "DEFAULT", "BEST"} THEN 1 ELSE level.n

SnappyCodec(level) ==
    IF SnappyLevel(level) # 1
    THEN [ok |-> FALSE, what |-> "SnappyCodec: invalid level", codec |-> NullCodec]
    ELSE [ok |-> TRUE, what |-> "",
          codec |-> [present |-> TRUE, class |-> "SnappyCodec", level_ |-> 0,
                     highCompression_ |-> FALSE]]

ZlibLevel(level) ==
    IF level.kind = "FASTEST" THEN 1
    ELSE IF level.kind = "DEFAULT" THEN Z_DEFAULT_COMPRESSION
    ELSE IF level.kind = "BEST" THEN 9
    ELSE level.n

\* ZlibCodec with the upper limit of line 401 one higher
ZlibCodecUpToTen(level) ==
    IF ZlibLevel(level) # Z_DEFAULT_COMPRESSION
       /\ (ZlibLevel(level) < 0 \/ ZlibLevel(level) > 10)
    THEN [ok |-> FALSE, what |-> "ZlibCodec: invalid level", codec |-> NullCodec]
    ELSE [ok |-> TRUE, what |-> "",
          codec |-> [present |-> TRUE, class |-> "ZlibCodec",
                     level_ |-> ZlibLevel(level), highCompression_ |-> FALSE]]

ZlibCodec(level) ==
    IF ZlibLevel(level) # Z_DEFAULT_COMPRESSION
       /\ (ZlibLevel(level) < 0 \/ ZlibLevel(level) > 9)
    THEN [ok |-> FALSE, what |-> "ZlibCodec: invalid level", codec |-> NullCodec]
    ELSE [ok |-> TRUE, what |-> "",
          codec |-> [present |-> TRUE, class |-> "ZlibCodec",
                     level_ |-> ZlibLevel(level), highCompression_ |-> FALSE]]

(***************************************************************************)
(* The virtual methods                                                     *)
(***************************************************************************)
doType(c) ==
    CASE c.class = "NoCompressionCodec" -> NO_COMPRESSION
      [] c.class = "LZ4Codec" -> LZ4
      [] c.class = "SnappyCodec" -> SNAPPY
      [] c.class = "ZlibCodec" -> ZLIB

LZ4MaxUncompressedLength == U64(1932735283)

doNeedsUncompressedLength(c) == c.class = "LZ4Codec"

doMaxUncompressedLength(c) ==
    CASE c.class = "LZ4Codec" -> LZ4MaxUncompressedLength
      [] c.class = "SnappyCodec" -> UINT32_MAX
      [] OTHER -> U64Pred(UINT64_MAX)

needsUncompressedLength(c) == doNeedsUncompressedLength(c)
maxUncompressedLength(c) == doMaxUncompressedLength(c)
type(c) == doType(c)

(***************************************************************************)
(* The registry                                                            *)
(***************************************************************************)
\* gCodecFactories with two entries in each other's place
gCodecFactoriesSwapped ==
    << "NoCompressionCodec", "SnappyCodec", "LZ4Codec", "ZlibCodec" >>

gCodecFactories ==
    << "NoCompressionCodec", "LZ4Codec", "SnappyCodec", "ZlibCodec" >>

Create(factory, level) ==
    CASE factory = "NoCompressionCodec" -> NoCompressionCodec(level)
      [] factory = "LZ4Codec" -> LZ4Codec(level)
      [] factory = "SnappyCodec" -> SnappyCodec(level)
      [] factory = "ZlibCodec" -> ZlibCodec(level)

\* [outcome, codec]
getCodec(tag, level) ==
    LET idx == SizeT(tag)
        unsupported == [outcome |-> Throw("invalid_argument",
                                          "Compression type not supported"),
                        codec |-> NullCodec]
    IN  IF ~U64Less(idx, U64(NUM_CODEC_TYPES)) THEN unsupported
        ELSE IF U64Nat(idx) + 1 > Len(gCodecFactories) THEN unsupported
        ELSE LET made == Create(gCodecFactories[U64Nat(idx) + 1], level)
             IN  IF ~made.ok
                 THEN [outcome |-> Throw("invalid_argument", made.what),
                       codec |-> NullCodec]
                 ELSE IF type(made.codec) # U64Nat(idx)
                 THEN [outcome |-> CheckFailed("DCHECK_EQ codec->type() idx"),
                       codec |-> NullCodec]
                 ELSE [outcome |-> Return(<< >>), codec |-> made.codec]

(***************************************************************************)
(* Codec::compress and Codec::uncompress up to the virtual call            *)
(***************************************************************************)
compress(c, chain) ==
    IF ~empty(chain) THEN Delegate ELSE Return(EmptyChain)

\* CheckLength comparing against the length after the ceiling
CheckLengthAboveNext(c, length) ==
    IF length = UNKNOWN_UNCOMPRESSED_LENGTH
    THEN IF needsUncompressedLength(c)
         THEN Throw("invalid_argument", "Codec: uncompressed length required")
         ELSE Delegate
    ELSE IF U64Less(U64Succ(maxUncompressedLength(c)), length)
         THEN Throw("runtime_error", "Codec: uncompressed length too large")
         ELSE Delegate

\* lines 41-47
CheckLength(c, length) ==
    IF length = UNKNOWN_UNCOMPRESSED_LENGTH
    THEN IF needsUncompressedLength(c)
         THEN Throw("invalid_argument", "Codec: uncompressed length required")
         ELSE Delegate
    ELSE IF U64Less(maxUncompressedLength(c), length)
         THEN Throw("runtime_error", "Codec: uncompressed length too large")
         ELSE Delegate

\* CheckEmpty without the test of the declared length
CheckEmptyAnyLength(chain, length) ==
    IF empty(chain) THEN Return(EmptyChain) ELSE Delegate

\* lines 49-55
CheckEmpty(chain, length) ==
    IF empty(chain)
    THEN IF length # UNKNOWN_UNCOMPRESSED_LENGTH /\ length # U64(0)
         THEN Throw("runtime_error", "Codec: invalid uncompressed length")
         ELSE Return(EmptyChain)
    ELSE Delegate

\* uncompress with lines 49-55 moved before lines 41-47
uncompressEmptyFirst(c, chain, length) ==
    IF CheckEmpty(chain, length) # Delegate
    THEN [outcome |-> CheckEmpty(chain, length), emptyChecked |-> TRUE]
    ELSE [outcome |-> CheckLength(c, length), emptyChecked |-> TRUE]

\* [outcome, emptyChecked]: emptyChecked records that line 49 was reached
uncompress(c, chain, length) ==
    IF CheckLength(c, length) # Delegate
    THEN [outcome |-> CheckLength(c, length), emptyChecked |-> FALSE]
    ELSE [outcome |-> CheckEmpty(chain, length), emptyChecked |-> TRUE]

(***************************************************************************)
(* NoCompressionCodec                                                      *)
(***************************************************************************)
NoCompressionDoCompress(chain) == Return(clone(chain))

\* NoCompressionDoUncompress without lines 126-130
NoCompressionDoUncompressAnyLength(chain, length) == Return(clone(chain))

NoCompressionDoUncompress(chain, length) ==
    IF length # UNKNOWN_UNCOMPRESSED_LENGTH
       /\ U64(computeChainDataLength(chain)) # length
    THEN Throw("runtime_error", "NoCompressionCodec: invalid uncompressed length")
    ELSE Return(clone(chain))

(***************************************************************************)
(* LZ4Codec                                                                *)
(***************************************************************************)
\* LZ4Input without the coalesce of a chained input
LZ4InputHeadOnly(chain) == chain[1]

\* lines 191-197 / 221-227: the buffer the primitive is given
LZ4Input(chain) ==
    IF isChained(chain) THEN coalesce(clone(chain))[1] ELSE chain[1]

\* LZ4DoCompress without line 214, out->append(n)
LZ4DoCompressNoAppend(c, chain) ==
    LET src == LZ4Input(chain)
        primitive == IF c.highCompression_ THEN "LZ4_compress"
                     ELSE "LZ4_compressHC"
    IN  [primitive |-> primitive, fed |-> src, outcome |-> Return(EmptyChain)]

\* [outcome, primitive, fed]
LZ4DoCompress(c, chain) ==
    LET src == LZ4Input(chain)
        capacity == LZ4_compressBound(RLen(src))
        primitive == IF c.highCompression_ THEN "LZ4_compress"
                     ELSE "LZ4_compressHC"
        written == IF c.highCompression_ THEN LZ4_compress(src)
                   ELSE LZ4_compressHC(src)
        n == RLen(written)
    IN  [primitive |-> primitive, fed |-> src,
         outcome |-> IF n < 0 THEN CheckFailed("CHECK_GE(n, 0)")
                     ELSE IF n > capacity
                     THEN CheckFailed("CHECK_LE(n, out->capacity())")
                     ELSE Return(<< written >>)]

\* [outcome, fed, overread]
LZ4DoUncompress(chain, length) ==
    LET src == LZ4Input(chain)
        r == LZ4_uncompress(src, U64Nat(length))
    IN  [fed |-> src, overread |-> r.overread,
         outcome |-> IF r.overread \/ r.n # RLen(src)
                     THEN Throw("runtime_error",
                                "LZ4 decompression returned invalid value")
                     ELSE Return(<< r.dest >>)]

(***************************************************************************)
(* SnappyCodec                                                             *)
(***************************************************************************)
\* [outcome, fed]
SnappyDoCompress(chain) ==
    LET source == IOBufSnappySource(chain)
        capacity == MaxCompressedLength(Available(source))
        written == snappy_Compress(chain, source)
        n == RLen(written)
    IN  [fed |-> SourceBytes(chain, source),
         outcome |-> IF n > capacity
                     THEN CheckFailed("CHECK_LE(n, out->capacity())")
                     ELSE Return(<< written >>)]

\* lines 341-361 with what the two snappy calls returned
SnappyUncompressed(length, actual, raw) ==
    IF ~actual.ok
    THEN Throw("runtime_error", "snappy::GetUncompressedLength failed")
    ELSE IF length # UNKNOWN_UNCOMPRESSED_LENGTH /\ length # U64(actual.result)
    THEN Throw("runtime_error", "snappy: invalid uncompressed length")
    ELSE IF ~raw.ok
    THEN Throw("runtime_error", "snappy::RawUncompress failed")
    ELSE Return(<< RTake(RCat(raw.dest, RRun(Indeterminate, actual.result)),
                         actual.result) >>)

SnappyDoUncompress(chain, length) ==
    SnappyUncompressed(length,
                       GetUncompressedLength(chain, IOBufSnappySource(chain)),
                       RawUncompress(chain, IOBufSnappySource(chain)))

(***************************************************************************)
(* ZlibCodec: the output chain is a sequence of buffers                    *)
(* [id, length, w]: id names the buffer (next_out holds the id of the      *)
(* buffer it points into), length is the IOBuf's data length and w the     *)
(* bytes written so far from its start.                                    *)
(***************************************************************************)
maxSingleStepLength == 64 * 2^20
defaultBufferLength == 4 * 2^20

\* IOBuf::prependChain on the head of a circular chain: the new buffer
\* becomes the last one
prependChain(head, buf) == Append(head, buf)

\* trimEnd leaving one byte of the unused space in the buffer
trimEndShort(head, amount) ==
    [head EXCEPT ![Len(head)].length = @ - Max(amount - 1, 0)]

\* IOBuf::trimEnd on head->prev(), the last buffer
trimEnd(head, amount) ==
    [head EXCEPT ![Len(head)].length = @ - amount]

\* the bytes of the chain handed back to the caller, buffer by buffer
BufBytes(buf) ==
    RTake(RCat(buf.w, RRun(Indeterminate, buf.length - RLen(buf.w))), buf.length)

Realise(head) == [i \in 1..Len(head) |-> BufBytes(head[i])]

\* [check, strm, buf]: check = FALSE when CHECK_EQ(stream->avail_out, 0) fails
addOutputBuffer(strm, made, length) ==
    [check |-> strm.avail_out = 0,
     strm |-> [strm EXCEPT !.next_out = made + 1, !.avail_out = length],
     buf |-> [id |-> made + 1, length |-> length, w |-> << >>]]

\* Grow adding a buffer while one byte of the active one is still unused
GrowEarly(strm, head, bufferLength) ==
    IF strm.avail_out <= 1
    THEN [strm |-> addOutputBuffer(strm, Len(head), bufferLength).strm,
          head |-> prependChain(head,
                       addOutputBuffer(strm, Len(head), bufferLength).buf)]
    ELSE [strm |-> strm, head |-> head]

\* lines 428-430, 501-503, 512-514: grow the chain when the space is used up
\* [strm, head]
Grow(strm, head, bufferLength) ==
    IF strm.avail_out = 0
    THEN [strm |-> addOutputBuffer(strm, Len(head), bufferLength).strm,
          head |-> prependChain(head,
                       addOutputBuffer(strm, Len(head), bufferLength).buf)]
    ELSE [strm |-> strm, head |-> head]

\* InflateReturned with Z_BUF_ERROR, no progress possible, taken for Z_OK
InflateReturnedLenient(r) ==
    [strm |-> r.strm, head |-> r.chain, rc |-> r.rc,
     streamEnd |-> r.rc = "Z_STREAM_END",
     outcome |->
        CASE r.rc \in {"Z_OK", "Z_STREAM_END", "Z_BUF_ERROR"} -> Delegate
          [] r.rc \in {"Z_NEED_DICT", "Z_DATA_ERROR", "Z_MEM_ERROR"} ->
                Throw("runtime_error", "ZlibCodec: inflate error")
          [] OTHER -> CheckFailed("CHECK(false)")]

\* lines 433-449: what doInflate makes of r, what inflate returned
\* [strm, head, rc, outcome, streamEnd]; outcome = Delegate when nothing is
\* thrown
InflateReturned(r) ==
    [strm |-> r.strm, head |-> r.chain, rc |-> r.rc,
     streamEnd |-> r.rc = "Z_STREAM_END",
     outcome |->
        CASE r.rc \in {"Z_OK", "Z_STREAM_END"} -> Delegate
          [] r.rc \in {"Z_BUF_ERROR", "Z_NEED_DICT", "Z_DATA_ERROR",
                       "Z_MEM_ERROR"} ->
                Throw("runtime_error", "ZlibCodec: inflate error")
          [] OTHER -> CheckFailed("CHECK(false)")]

doInflate(strm, head, bufferLength) ==
    [room |-> Grow(strm, head, bufferLength).strm.avail_out]
    @@ InflateReturned(inflate(Grow(strm, head, bufferLength).strm,
                               Grow(strm, head, bufferLength).head))

\* lines 486-490
CompressFirstLength(chain) ==
    LET maxCompressedLength == deflateBound(computeChainDataLength(chain))
    IN  IF maxCompressedLength <= maxSingleStepLength
        THEN maxCompressedLength
        ELSE defaultBufferLength

\* UncompressFirstLength taking the declared length only when it is
\* smaller than maxSingleStepLength
UncompressFirstLengthBelow(length) ==
    IF length # UNKNOWN_UNCOMPRESSED_LENGTH
       /\ U64Less(length, U64(maxSingleStepLength))
    THEN U64Nat(length)
    ELSE defaultBufferLength

\* lines 559-564
UncompressFirstLength(length) ==
    IF length # UNKNOWN_UNCOMPRESSED_LENGTH
       /\ ~U64Less(U64(maxSingleStepLength), length)
    THEN U64Nat(length)
    ELSE defaultBufferLength

\* deflateEnd reports discarded data when the stream was freed after taking
\* input and before deflate was told to finish
deflateEnd(strm) ==
    IF strm.total_in > 0 /\ ~strm.eos THEN "Z_DATA_ERROR" ELSE "Z_OK"

inflateEnd(strm) == "Z_OK"

\* ScopeExit with a guard that takes nothing but Z_OK
ScopeExitStrict(rc, ok, outcome) ==
    IF rc = "Z_OK" THEN outcome
    ELSE CheckFailed("CHECK(rc == Z_OK || (!success && rc == Z_DATA_ERROR))")

\* SCOPE_EXIT, lines 471-477 and 547-553: the outcome of the call once the
\* guard has run
ScopeExit(rc, ok, outcome) ==
    IF rc = "Z_OK" \/ (~ok /\ rc = "Z_DATA_ERROR") THEN outcome
    ELSE CheckFailed("CHECK(rc == Z_OK || (!success && rc == Z_DATA_ERROR))")

\* UncompressTail without line 589, the trimEnd
UncompressTailUntrimmed(strm, head, length) ==
    IF length # UNKNOWN_UNCOMPRESSED_LENGTH /\ length # U64(strm.total_out)
    THEN [success |-> FALSE,
          outcome |-> Throw("runtime_error",
                            "ZlibCodec: invalid uncompressed length")]
    ELSE [success |-> TRUE, outcome |-> Return(Realise(head))]

\* UncompressTail with the test of lines 591-595 refusing only a stream that
\* is shorter than declared
UncompressTailAtLeast(strm, head, length) ==
    IF length # UNKNOWN_UNCOMPRESSED_LENGTH
       /\ U64Less(U64(strm.total_out), length)
    THEN [success |-> FALSE,
          outcome |-> Throw("runtime_error",
                            "ZlibCodec: invalid uncompressed length")]
    ELSE [success |-> TRUE,
          outcome |-> Return(Realise(trimEnd(head, strm.avail_out)))]

\* lines 589-599
UncompressTail(strm, head, length) ==
    IF length # UNKNOWN_UNCOMPRESSED_LENGTH /\ length # U64(strm.total_out)
    THEN [success |-> FALSE,
          outcome |-> Throw("runtime_error",
                            "ZlibCodec: invalid uncompressed length")]
    ELSE [success |-> TRUE,
          outcome |-> Return(Realise(trimEnd(head, strm.avail_out)))]

(***************************************************************************)
(* Inputs                                                                  *)
(***************************************************************************)
Classes == {"NoCompressionCodec", "LZ4Codec", "SnappyCodec", "ZlibCodec"}

\* byte values of the small uncompressed inputs ('A', 'B')
RawByte == {65, 66}

\* byte values of the small inputs given to uncompress: for each variant a
\* payload code, its framing byte and a byte that is neither
WireByte ==
    [cls \in Classes |->
        CASE cls = "NoCompressionCodec" -> RawByte
          [] cls = "LZ4Codec" -> {LZ4_TOKEN_FAST, LZ4Enc(65), 65}
          [] cls = "SnappyCodec" -> {0, 1, 2}
          [] cls = "ZlibCodec" -> {Z_EOS, ZEnc(65), 65}]

RECURSIVE ToRuns(_)
ToRuns(bytes) ==
    IF bytes = << >> THEN << >>
    ELSE RCat(RRun(bytes[1], 1), ToRuns(Tail(bytes)))

\* the byte strings over S of up to n bytes
StringsUpTo(S, n) == UNION {[1..m -> S] : m \in 0..n}

Strings(S) == StringsUpTo(S, MaxLen)

\* the ways to cut n bytes into k segments, empty ones included
Cuts(n, k) ==
    {c \in [0..k -> 0..n] :
        /\ c[0] = 0 /\ c[k] = n
        /\ \A i \in 1..k : c[i - 1] <= c[i]}

Split(bytes, k, c) ==
    [i \in 1..k |-> ToRuns(SubSeq(bytes, c[i - 1] + 1, c[i]))]

\* the chains of up to segs segments that hold a string of strings
ChainsOf(strings, segs) ==
    UNION {UNION {{Split(bytes, k, c) : c \in Cuts(Len(bytes), k)} :
                  k \in 1..segs} : bytes \in strings}

ChainsOver(S) == ChainsOf(Strings(S), MaxSegs)

RawChains == ChainsOver(RawByte)

\* an 11-byte input for the variant that copies
UncompressInputs ==
    [cls \in Classes |->
        ChainsOver(WireByte[cls])
        \cup (IF cls = "NoCompressionCodec"
              THEN {<< RRun(65, 5), RRun(66, 6) >>} ELSE {})]

\* large inputs: two segments of 3 MiB and 2 MiB; 64 MiB, whose deflateBound
\* is above maxSingleStepLength; one byte above the lz4 ceiling
MiB == 2^20
LargeChains ==
    [cls \in Classes |->
        {<< RRun(65, 3 * MiB), RRun(66, 2 * MiB) >>}
        \cup (IF cls = "ZlibCodec" THEN {<< RRun(65, 64 * MiB) >>} ELSE {})
        \cup (IF cls = "LZ4Codec"
              THEN {<< RRun(65, U64Nat(LZ4MaxUncompressedLength)) >>,
                    << RRun(65, U64Nat(LZ4MaxUncompressedLength) + 1) >>}
              ELSE {})]

\* inputs at the limit of line 488: deflateBound(67088378) is
\* maxSingleStepLength and deflateBound(67088379) is one more
CeilingChains ==
    [cls \in Classes |->
        IF cls = "ZlibCodec"
        THEN {<< RRun(66, 67088378) >>, << RRun(66, 67088379) >>}
        ELSE {}]

CompressInputs ==
    [cls \in Classes |-> RawChains \cup LargeChains[cls] \cup CeilingChains[cls]]

\* declared lengths: Unknown, the small ones, the variant's ceiling and the
\* length after it
Lengths ==
    [cls \in Classes |->
        {UNKNOWN_UNCOMPRESSED_LENGTH}
        \cup {U64(n) : n \in 0..(MaxLen + 1)} \cup {U64(5), U64(11)}
        \cup {doMaxUncompressedLength([class |-> cls]),
              U64Succ(doMaxUncompressedLength([class |-> cls]))}
        \cup (IF cls = "ZlibCodec"
              THEN {U64(maxSingleStepLength - 1), U64(maxSingleStepLength),
                    U64(maxSingleStepLength + 1)}
              ELSE {})]

TypeTags == -1..(NUM_CODEC_TYPES + 1)

Levels ==
    {COMPRESSION_LEVEL_FASTEST, COMPRESSION_LEVEL_DEFAULT, COMPRESSION_LEVEL_BEST}
    \cup {Numeric(n) : n \in {-2, -1, 0, 1, 2, 3, 9, 10}}

(***************************************************************************)
(* The state machine: a caller holding at most one codec and making one   *)
(* call at a time.  A second caller of the same codec object may run       *)
(* between any two steps of the first (Switch, ConcSpec); the variables    *)
(* from pc to orig are then those of the caller that is running and        *)
(* parked holds those of the other.                                        *)
(***************************************************************************)
VARIABLES
    codec,               \* the codec the caller holds (NullCodec: none yet)
    pc,                  \* where the current call stands ("idle": no call)
    op,                  \* the current or last call
    data,                \* its input chain
    uncompressedLength,  \* its declared length (uncompress)
    stream,              \* z_stream of the running ZlibCodec call
    out,                 \* output chain of the running ZlibCodec call
    range,               \* position of the for loop over *data
    streamEnd,           \* doUncompress' streamEnd
    success,             \* the flag read by SCOPE_EXIT
    result,              \* outcome of the last call that ended
    hist,                \* what the current or last call did (history)
    orig,                \* the chain whose compressed form is being uncompressed
    parked               \* pc .. orig of the caller that is not running

vars == << codec, pc, op, data, uncompressedLength, stream, out, range,
           streamEnd, success, result, hist, orig, parked >>

NoResult == [status |-> "none", what |-> "", out |-> << >>]

NoHist ==
    [tag |-> 0, level |-> Numeric(0),  \* getCodec's arguments
     emptyChecked |-> FALSE,   \* Codec::uncompress reached its empty() test
     routine |-> FALSE,        \* the variant's doCompress/doUncompress ran
     algo |-> 0,               \* calls of the algorithm's (de)compress routine
     primitive |-> "",         \* the lz4 primitive called
     fed |-> << >>,            \* the bytes handed to the algorithm, in order
     consumed |-> 0,           \* how many of them the algorithm has consumed
     inits |-> 0,              \* deflateInit / inflateInit that returned Z_OK
     ends |-> 0,               \* deflateEnd / inflateEnd calls
     endRc |-> "",             \* what the last of them returned
     room |-> 1,               \* avail_out at the algorithm's last call
     produced |-> 0,           \* total_out after the algorithm's last call
     endSeen |-> FALSE,        \* inflate has returned Z_STREAM_END
     afterEnd |-> FALSE,       \* inflate was called after that
     roundTrip |-> FALSE]      \* the input is the output of the last compress

\* a caller that has made no call yet
NoCall ==
    [pc |-> "idle", op |-> "none", data |-> EmptyChain,
     uncompressedLength |-> UNKNOWN_UNCOMPRESSED_LENGTH,
     stream |-> InitStream, out |-> << >>, range |-> 0, streamEnd |-> FALSE,
     success |-> FALSE, result |-> NoResult, hist |-> NoHist,
     orig |-> EmptyChain]

Init ==
    /\ codec = NullCodec
    /\ pc = "idle"
    /\ op = "none"
    /\ data = EmptyChain
    /\ uncompressedLength = UNKNOWN_UNCOMPRESSED_LENGTH
    /\ stream = InitStream
    /\ out = << >>
    /\ range = 0
    /\ streamEnd = FALSE
    /\ success = FALSE
    /\ result = NoResult
    /\ hist = NoHist
    /\ orig = EmptyChain
    /\ parked = NoCall

ZlibLocalsReset ==
    /\ stream' = InitStream
    /\ out' = << >>
    /\ range' = 0
    /\ streamEnd' = FALSE
    /\ success' = FALSE

\* the call ends with outcome o
Finish(o, h) ==
    /\ pc' = "idle"
    /\ result' = o
    /\ hist' = h
    /\ ZlibLocalsReset

(***************************************************************************)
(* getCodec                                                                *)
(***************************************************************************)
\* getCodec called with one of the given << type, level >>
GetCodecOf(calls) ==
    \E call \in calls :
        /\ pc = "idle"
        /\ ~codec.present
        /\ op' = "getCodec"
        /\ codec' = getCodec(call[1], call[2]).codec
        /\ Finish(getCodec(call[1], call[2]).outcome,
                  [NoHist EXCEPT !.tag = call[1], !.level = call[2]])
        /\ UNCHANGED << data, uncompressedLength, orig >>
        /\ UNCHANGED parked

GetCodec == GetCodecOf(TypeTags \X Levels)

(***************************************************************************)
(* Codec::compress, Codec::uncompress                                      *)
(***************************************************************************)
\* the caller lets go of the last call's result
Release ==
    /\ pc = "idle"
    /\ op \in {"compress", "uncompress"}
    /\ op' = "none"
    /\ data' = EmptyChain
    /\ uncompressedLength' = UNKNOWN_UNCOMPRESSED_LENGTH
    /\ orig' = EmptyChain
    /\ Finish(NoResult, NoHist)
    /\ UNCHANGED codec
    /\ UNCHANGED parked

\* the caller holds a codec and no result of an earlier call
Ready == pc = "idle" /\ codec.present /\ op \in {"none", "getCodec"}

\* compress called with one of the given chains
CompressOf(chains) ==
    /\ Ready
    /\ \E chain \in chains :
        /\ op' = "compress"
        /\ data' = chain
        /\ uncompressedLength' = UNKNOWN_UNCOMPRESSED_LENGTH
        /\ orig' = EmptyChain
        /\ IF compress(codec, chain) = Delegate
           THEN /\ pc' = "doCompress"
                /\ hist' = NoHist
                /\ result' = NoResult
                /\ UNCHANGED << stream, out, range, streamEnd, success >>
           ELSE Finish(compress(codec, chain), NoHist)
        /\ UNCHANGED codec
    /\ UNCHANGED parked

Compress == CompressOf(CompressInputs[codec.class])

BeginUncompress(chain, length, h) ==
    /\ op' = "uncompress"
    /\ data' = chain
    /\ uncompressedLength' = length
    /\ IF uncompress(codec, chain, length).outcome = Delegate
       THEN /\ pc' = "doUncompress"
            /\ hist' = [h EXCEPT !.emptyChecked = TRUE]
            /\ result' = NoResult
            /\ UNCHANGED << stream, out, range, streamEnd, success >>
       ELSE Finish(uncompress(codec, chain, length).outcome,
                   [h EXCEPT !.emptyChecked =
                                uncompress(codec, chain, length).emptyChecked])
    /\ UNCHANGED codec

\* uncompress called with one of the given chains and lengths
UncompressOf(chains, lengths) ==
    /\ Ready
    /\ \E chain \in chains, length \in lengths :
        /\ orig' = EmptyChain
        /\ BeginUncompress(chain, length, NoHist)
    /\ UNCHANGED parked

Uncompress == UncompressOf(UncompressInputs[codec.class], Lengths[codec.class])

\* uncompress what the last compress returned, with the length of what was
\* compressed or with no length
UncompressCompressed ==
    /\ pc = "idle"
    /\ op = "compress"
    /\ result.status = "ok"
    /\ \E length \in {U64(computeChainDataLength(data)),
                      UNKNOWN_UNCOMPRESSED_LENGTH} :
        /\ orig' = data
        /\ BeginUncompress(result.out, length, [NoHist EXCEPT !.roundTrip = TRUE])
    /\ UNCHANGED parked

(***************************************************************************)
(* The one-shot variants                                                   *)
(***************************************************************************)
Ran(h, fed, primitive) ==
    [h EXCEPT !.routine = TRUE, !.algo = Min(@ + 1, MaxAlgo), !.fed = fed,
              !.consumed = RLen(fed), !.primitive = primitive]

NoCompressionCompress ==
    /\ pc = "doCompress"
    /\ codec.class = "NoCompressionCodec"
    /\ Finish(NoCompressionDoCompress(data), [hist EXCEPT !.routine = TRUE])
    /\ UNCHANGED << codec, op, data, uncompressedLength, orig >>
    /\ UNCHANGED parked

NoCompressionUncompress ==
    /\ pc = "doUncompress"
    /\ codec.class = "NoCompressionCodec"
    /\ Finish(NoCompressionDoUncompress(data, uncompressedLength),
              [hist EXCEPT !.routine = TRUE])
    /\ UNCHANGED << codec, op, data, uncompressedLength, orig >>
    /\ UNCHANGED parked

\* LZ4Compress with line 194 coalescing *data itself, not a clone of it
LZ4CompressInPlace ==
    /\ pc = "doCompress"
    /\ codec.class = "LZ4Codec"
    /\ Finish(LZ4DoCompress(codec, data).outcome,
              Ran(hist, LZ4DoCompress(codec, data).fed,
                  LZ4DoCompress(codec, data).primitive))
    /\ data' = IF isChained(data) THEN coalesce(data) ELSE data
    /\ UNCHANGED << codec, op, uncompressedLength, orig >>
    /\ UNCHANGED parked

LZ4Compress ==
    /\ pc = "doCompress"
    /\ codec.class = "LZ4Codec"
    /\ Finish(LZ4DoCompress(codec, data).outcome,
              Ran(hist, LZ4DoCompress(codec, data).fed,
                  LZ4DoCompress(codec, data).primitive))
    /\ UNCHANGED << codec, op, data, uncompressedLength, orig >>
    /\ UNCHANGED parked

\* when LZ4_uncompress reads past the end of its input the behaviour is
\* undefined: the call throws on the byte count or the process dies
LZ4Uncompress ==
    /\ pc = "doUncompress"
    /\ codec.class = "LZ4Codec"
    /\ \E o \in {LZ4DoUncompress(data, uncompressedLength).outcome}
                \cup (IF LZ4DoUncompress(data, uncompressedLength).overread
                      THEN {[status |-> "crash", what |-> "read past the input",
                             out |-> << >>]}
                      ELSE {}) :
          Finish(o, Ran(hist, LZ4DoUncompress(data, uncompressedLength).fed,
                        "LZ4_uncompress"))
    /\ UNCHANGED << codec, op, data, uncompressedLength, orig >>
    /\ UNCHANGED parked

SnappyCompress ==
    /\ pc = "doCompress"
    /\ codec.class = "SnappyCodec"
    /\ Finish(SnappyDoCompress(data).outcome,
              Ran(hist, SnappyDoCompress(data).fed, "snappy::Compress"))
    /\ UNCHANGED << codec, op, data, uncompressedLength, orig >>
    /\ UNCHANGED parked

SnappyUncompress ==
    /\ pc = "doUncompress"
    /\ codec.class = "SnappyCodec"
    /\ Finish(SnappyDoUncompress(data, uncompressedLength),
              Ran(hist, SourceBytes(data, IOBufSnappySource(data)),
                  "snappy::RawUncompress"))
    /\ UNCHANGED << codec, op, data, uncompressedLength, orig >>
    /\ UNCHANGED parked

(***************************************************************************)
(* ZlibCodec::doCompress                                                   *)
(***************************************************************************)
\* the scope guard's deflateEnd / inflateEnd returned rc
Released(h, rc) == [h EXCEPT !.ends = @ + 1, !.endRc = rc]

\* line 416: IOBuf::create throws std::bad_alloc when the buffer cannot be
\* had; the scope guard runs, its release call returning rc
AllocationFailed(h, rc, ok) ==
    Finish(ScopeExit(rc, ok, Throw("bad_alloc", "std::bad_alloc")),
           Released(h, rc))

\* lines 453-490: deflateInit, the stream fields, the first output buffer
ZlibCompressInit ==
    /\ pc = "doCompress"
    /\ codec.class = "ZlibCodec"
    /\ \E rc \in {"Z_OK", "Z_MEM_ERROR"} :
        IF rc # "Z_OK"
        THEN Finish(Throw("runtime_error", "ZlibCodec: deflateInit error"),
                    [hist EXCEPT !.routine = TRUE])
        ELSE \/ LET first == addOutputBuffer(InitStream, 0,
                                             CompressFirstLength(data))
                IN  /\ hist' = [hist EXCEPT !.routine = TRUE, !.inits = @ + 1]
                    /\ IF first.check
                       THEN /\ pc' = "doCompress:for"
                            /\ stream' = first.strm
                            /\ out' = << first.buf >>
                            /\ range' = 0
                            /\ success' = FALSE
                            /\ UNCHANGED << result, streamEnd >>
                       ELSE Finish(CheckFailed("CHECK_EQ(stream->avail_out, 0)"),
                                   hist')
             \/ AllocationFailed([hist EXCEPT !.routine = TRUE, !.inits = @ + 1],
                                 deflateEnd(InitStream), FALSE)
    /\ UNCHANGED << codec, op, data, uncompressedLength, orig >>
    /\ UNCHANGED parked

\* line 492-498: the next range of *data; empty ranges are skipped
ZlibCompressRange ==
    /\ pc = "doCompress:for"
    /\ IF range = Len(data)
       THEN /\ pc' = "doCompress:finish"
            /\ UNCHANGED << range, stream, hist >>
       ELSE /\ range' = range + 1
            /\ IF data[range + 1] = << >>
               THEN UNCHANGED << pc, stream, hist >>
               ELSE /\ pc' = "doCompress:while"
                    /\ stream' = [stream EXCEPT !.next_in = data[range + 1],
                                                !.avail_in = RLen(data[range + 1])]
                    /\ hist' = [hist EXCEPT !.fed = RCat(@, data[range + 1])]
    /\ UNCHANGED << codec, op, data, uncompressedLength, out, streamEnd,
                    success, result, orig >>
    /\ UNCHANGED parked

\* deflate after lines 501-503 / 512-514
GrowDeflate(flush) ==
    [room |-> Grow(stream, out, defaultBufferLength).strm.avail_out]
    @@ deflate(Grow(stream, out, defaultBufferLength).strm,
               Grow(stream, out, defaultBufferLength).head, flush)

\* what one call of deflate adds to the history
Deflated(h, r) ==
    [h EXCEPT !.algo = Min(@ + 1, MaxAlgo),
              !.consumed = r.strm.total_in,
              !.room = r.room,
              !.produced = r.strm.total_out]

\* lines 505-507 after a deflate call that returned r
AfterDeflate(r) ==
    /\ hist' = Deflated(hist, r)
    /\ IF r.rc # "Z_OK"
       THEN Finish(CheckFailed("CHECK_EQ(rc, Z_OK)"), hist')
       ELSE /\ stream' = r.strm
            /\ out' = r.chain
            /\ pc' = IF r.strm.avail_in # 0 THEN "doCompress:while"
                     ELSE "doCompress:for"
            /\ UNCHANGED << range, streamEnd, success, result >>

\* one turn of the loop of lines 500-508
ZlibCompressDeflate ==
    /\ pc = "doCompress:while"
    /\ \/ \E r \in {GrowDeflate("Z_NO_FLUSH")} : AfterDeflate(r)
       \/ /\ stream.avail_out = 0
          /\ AllocationFailed(hist, deflateEnd(stream), success)
    /\ UNCHANGED << codec, op, data, uncompressedLength, orig >>
    /\ UNCHANGED parked

\* lines 516-525 after a deflate(Z_FINISH) call that returned r
AfterFinish(r) ==
    IF r.rc = "Z_OK"
    THEN /\ stream' = r.strm
         /\ out' = r.chain
         /\ hist' = Deflated(hist, r)
         /\ UNCHANGED << pc, range, streamEnd, success, result >>
    ELSE IF r.rc # "Z_STREAM_END"
    THEN Finish(CheckFailed("CHECK_EQ(rc, Z_STREAM_END)"), Deflated(hist, r))
    ELSE Finish(ScopeExit(deflateEnd(r.strm), TRUE,
                          Return(Realise(trimEnd(r.chain, r.strm.avail_out)))),
                Released(Deflated(hist, r), deflateEnd(r.strm)))

\* one turn of the loop of lines 511-517 and, when it ends, lines 519-525
\* with the scope guard
ZlibCompressFinish ==
    /\ pc = "doCompress:finish"
    /\ \/ \E r \in {GrowDeflate("Z_FINISH")} : AfterFinish(r)
       \/ /\ stream.avail_out = 0
          /\ AllocationFailed(hist, deflateEnd(stream), success)
    /\ UNCHANGED << codec, op, data, uncompressedLength, orig >>
    /\ UNCHANGED parked

(***************************************************************************)
(* ZlibCodec::doUncompress                                                 *)
(***************************************************************************)
\* lines 528-566
ZlibUncompressInit ==
    /\ pc = "doUncompress"
    /\ codec.class = "ZlibCodec"
    /\ \E rc \in {"Z_OK", "Z_MEM_ERROR"} :
        IF rc # "Z_OK"
        THEN Finish(Throw("runtime_error", "ZlibCodec: inflateInit error"),
                    [hist EXCEPT !.routine = TRUE])
        ELSE \/ LET first == addOutputBuffer(InitStream, 0,
                                 UncompressFirstLength(uncompressedLength))
                IN  /\ hist' = [hist EXCEPT !.routine = TRUE, !.inits = @ + 1]
                    /\ IF first.check
                       THEN /\ pc' = "doUncompress:for"
                            /\ stream' = first.strm
                            /\ out' = << first.buf >>
                            /\ range' = 0
                            /\ success' = FALSE
                            /\ streamEnd' = FALSE
                            /\ UNCHANGED result
                       ELSE Finish(CheckFailed("CHECK_EQ(stream->avail_out, 0)"),
                                   hist')
             \/ AllocationFailed([hist EXCEPT !.routine = TRUE, !.inits = @ + 1],
                                 inflateEnd(InitStream), FALSE)
    /\ UNCHANGED << codec, op, data, uncompressedLength, orig >>
    /\ UNCHANGED parked

\* lines 567-573
ZlibUncompressRange ==
    /\ pc = "doUncompress:for"
    /\ IF range = Len(data)
       THEN /\ pc' = "doUncompress:drain"
            /\ UNCHANGED << range, stream, hist >>
       ELSE /\ range' = range + 1
            /\ IF data[range + 1] = << >>
               THEN UNCHANGED << pc, stream, hist >>
               ELSE /\ pc' = "doUncompress:while"
                    /\ stream' = [stream EXCEPT !.next_in = data[range + 1],
                                                !.avail_in = RLen(data[range + 1])]
                    /\ hist' = [hist EXCEPT !.fed = RCat(@, data[range + 1])]
    /\ UNCHANGED << codec, op, data, uncompressedLength, out, streamEnd,
                    success, result, orig >>
    /\ UNCHANGED parked

\* what one call of doInflate adds to the history
Inflated(h, r) ==
    [h EXCEPT !.algo = Min(@ + 1, MaxAlgo),
              !.consumed = r.strm.total_in,
              !.room = r.room,
              !.produced = r.strm.total_out,
              !.afterEnd = @ \/ h.endSeen,
              !.endSeen = @ \/ r.streamEnd]

\* InflateTurn without lines 576-579, the test of streamEnd
InflateTurnPastEnd(strm, head, isEnd) ==
    [called |-> TRUE] @@ doInflate(strm, head, defaultBufferLength)

\* lines 576-581, the body of the loop: called = FALSE when it throws
\* before calling doInflate
InflateTurn(strm, head, isEnd) ==
    IF isEnd
    THEN [called |-> FALSE, strm |-> strm, head |-> head, rc |-> "",
          streamEnd |-> isEnd, room |-> strm.avail_out,
          outcome |-> Throw("runtime_error", "ZlibCodec: junk after end of data")]
    ELSE [called |-> TRUE] @@ doInflate(strm, head, defaultBufferLength)

\* the loops of lines 575-587 after a doInflate call that returned r: the
\* call ends when doInflate threw, else the loop goes on (again) or is left
AfterInflate(r, again, left) ==
    IF r.outcome # Delegate
    THEN Finish(IF r.outcome.status = "check_failed" THEN r.outcome
                ELSE ScopeExit(inflateEnd(r.strm), success, r.outcome),
                IF r.outcome.status = "check_failed" THEN Inflated(hist, r)
                ELSE Released(Inflated(hist, r), inflateEnd(r.strm)))
    ELSE /\ stream' = r.strm
         /\ out' = r.head
         /\ streamEnd' = r.streamEnd
         /\ hist' = Inflated(hist, r)
         /\ pc' = IF r.strm.avail_in # 0 THEN again ELSE left
         /\ UNCHANGED << range, success, result >>

\* the loop of lines 575-582 after the turn r
AfterTurn(r) ==
    IF ~r.called
    THEN Finish(ScopeExit(inflateEnd(stream), success, r.outcome),
                Released(hist, inflateEnd(stream)))
    ELSE AfterInflate(r, "doUncompress:while", "doUncompress:for")

\* one turn of the loop of lines 575-582
ZlibUncompressInflate ==
    /\ pc = "doUncompress:while"
    /\ \/ \E r \in {InflateTurn(stream, out, streamEnd)} : AfterTurn(r)
       \/ /\ ~streamEnd /\ stream.avail_out = 0
          /\ AllocationFailed(hist, inflateEnd(stream), success)
    /\ UNCHANGED << codec, op, data, uncompressedLength, orig >>
    /\ UNCHANGED parked

\* lines 589-599 with the scope guard
UncompressReturn(t) ==
    Finish(ScopeExit(inflateEnd(stream), t.success, t.outcome),
           Released(hist, inflateEnd(stream)))

\* one turn of the loop of lines 585-587 and, when it ends, lines 589-599
ZlibUncompressDrain ==
    /\ pc = "doUncompress:drain"
    /\ IF ~streamEnd
       THEN \/ \E r \in {doInflate(stream, out, defaultBufferLength)} :
                    AfterInflate(r, "doUncompress:drain", "doUncompress:drain")
            \/ /\ stream.avail_out = 0
               /\ AllocationFailed(hist, inflateEnd(stream), success)
       ELSE \E t \in {UncompressTail(stream, out, uncompressedLength)} :
                UncompressReturn(t)
    /\ UNCHANGED << codec, op, data, uncompressedLength, orig >>
    /\ UNCHANGED parked

Next ==
    \/ GetCodec
    \/ Release
    \/ Compress
    \/ Uncompress
    \/ UncompressCompressed
    \/ NoCompressionCompress
    \/ NoCompressionUncompress
    \/ LZ4Compress
    \/ LZ4Uncompress
    \/ SnappyCompress
    \/ SnappyUncompress
    \/ ZlibCompressInit
    \/ ZlibCompressRange
    \/ ZlibCompressDeflate
    \/ ZlibCompressFinish
    \/ ZlibUncompressInit
    \/ ZlibUncompressRange
    \/ ZlibUncompressInflate
    \/ ZlibUncompressDrain

Spec == Init /\ [][Next]_vars

\* a step of a ZlibCodec routine
ZlibStep ==
    \/ ZlibCompressInit
    \/ ZlibCompressRange
    \/ ZlibCompressDeflate
    \/ ZlibCompressFinish
    \/ ZlibUncompressInit
    \/ ZlibUncompressRange
    \/ ZlibUncompressInflate
    \/ ZlibUncompressDrain

\* a ZlibCodec routine has been entered and has not ended
ZlibRunning ==
    /\ codec.class = "ZlibCodec"
    /\ pc # "idle"

\* A routine that was entered goes on running: it is straight-line code of
\* one thread, and nothing in it waits.  This is weak fairness of ZlibStep,
\* WF_vars(ZlibStep), written with ZlibRunning for ENABLED <<ZlibStep>>_vars:
\* a step is possible exactly while a routine is running.
LiveSpec == Spec /\ (<>[]ZlibRunning => []<><<ZlibStep>>_vars)

(***************************************************************************)
(* Two callers of one codec object.  What a call keeps is in the locals of *)
(* doCompress / doUncompress and of the caller, one set per caller; the    *)
(* codec object is the only thing the two have in common.  Switch lets    *)
(* the other caller run, at any step of a call.                           *)
(***************************************************************************)
\* the bytes a caller of ConcSpec hands to a call, apart from LargeChains
ConcBytes == 1

Locals ==
    [pc |-> pc, op |-> op, data |-> data,
     uncompressedLength |-> uncompressedLength,
     stream |-> stream, out |-> out, range |-> range, streamEnd |-> streamEnd,
     success |-> success, result |-> result, hist |-> hist, orig |-> orig]

\* Switch with the z_stream and the output chain kept in one place for both
\* callers, as members of the codec object would be
SwitchSharedStream ==
    /\ codec.present
    /\ parked' = Locals
    /\ pc' = parked.pc
    /\ op' = parked.op
    /\ data' = parked.data
    /\ uncompressedLength' = parked.uncompressedLength
    /\ range' = parked.range
    /\ streamEnd' = parked.streamEnd
    /\ success' = parked.success
    /\ result' = parked.result
    /\ hist' = parked.hist
    /\ orig' = parked.orig
    /\ UNCHANGED << codec, stream, out >>

Switch ==
    /\ codec.present
    /\ parked' = Locals
    /\ pc' = parked.pc
    /\ op' = parked.op
    /\ data' = parked.data
    /\ uncompressedLength' = parked.uncompressedLength
    /\ stream' = parked.stream
    /\ out' = parked.out
    /\ range' = parked.range
    /\ streamEnd' = parked.streamEnd
    /\ success' = parked.success
    /\ result' = parked.result
    /\ hist' = parked.hist
    /\ orig' = parked.orig
    /\ UNCHANGED codec

\* the calls the two callers of ConcSpec make: the default level, and the
\* best one for LZ4Codec; short chains and the large ones
ConcGetCodec ==
    (TypeTags \X {COMPRESSION_LEVEL_DEFAULT})
    \cup {<< LZ4, COMPRESSION_LEVEL_BEST >>}

ConcCompressInputs ==
    ChainsOf(StringsUpTo({65}, ConcBytes), ConcBytes + 1)
    \cup LargeChains[codec.class]

ConcUncompressInputs ==
    ChainsOf(StringsUpTo(WireByte[codec.class], ConcBytes + 1), 1)

ConcLengths == {UNKNOWN_UNCOMPRESSED_LENGTH, U64(ConcBytes)}

ConcNext ==
    \/ Switch
    \/ GetCodecOf(ConcGetCodec)
    \/ CompressOf(ConcCompressInputs)
    \/ UncompressOf(ConcUncompressInputs, ConcLengths)
    \/ computeChainDataLength(data) <= ConcBytes /\ UncompressCompressed
    \/ Release
    \/ NoCompressionCompress
    \/ NoCompressionUncompress
    \/ LZ4Compress
    \/ LZ4Uncompress
    \/ SnappyCompress
    \/ SnappyUncompress
    \/ ZlibCompressInit
    \/ ZlibCompressRange
    \/ ZlibCompressDeflate
    \/ ZlibCompressFinish
    \/ ZlibUncompressInit
    \/ ZlibUncompressRange
    \/ ZlibUncompressInflate
    \/ ZlibUncompressDrain

ConcSpec == Init /\ [][ConcNext]_vars

(***************************************************************************)
(* Properties of Codec::compress / Codec::uncompress                       *)
(***************************************************************************)
\* a call of the kind o has ended
Ended(o) == pc = "idle" /\ op = o

\* the outcome r is one the call's arguments do not decide: memory was
\* wanting, or lz4 read past the end of its input
Undecided(r) ==
    \/ r.what \in {"ZlibCodec: deflateInit error",
                    "ZlibCodec: inflateInit error", "std::bad_alloc"}
    \/ r.status = "crash"

\* the last call was refused for want of memory: the algorithm could not be
\* set up or an output buffer could not be had
ResourceFailure ==
    result.what \in {"ZlibCodec: deflateInit error",
                     "ZlibCodec: inflateInit error", "std::bad_alloc"}

\* the call that ended uncompressed what compress returned for orig
RoundTripped == Ended("uncompress") /\ hist.roundTrip

\* the routine of the variant did not run and the algorithm was not called
NotDelegated == ~hist.routine /\ hist.algo = 0

\* C1 as the specification states it: for every variant and every non-empty
\* byte sequence B, in any segmentation, uncompress(compress(B), len(B))
\* returns exactly the bytes of B, and so does uncompress(compress(B),
\* Unknown) for every variant that does not need the length (the algorithm
\* being available and inverting its own encoding).
C1_RoundTripAnyLength ==
    (/\ RoundTripped
     /\ ~empty(orig)
     /\ ~ResourceFailure
     /\ \/ uncompressedLength = U64(computeChainDataLength(orig))
        \/ ~needsUncompressedLength(codec))
    => /\ result.status = "ok"
       /\ ChainBytes(result.out) = ChainBytes(orig)

\* C1: for every variant and every non-empty byte sequence B, in any
\* segmentation, that is not longer than the variant's
\* maxUncompressedLength(), uncompress(compress(B), len(B)) returns exactly
\* the bytes of B, and so does uncompress(compress(B), Unknown) for every
\* variant that does not need the length.
C1_RoundTrip ==
    (/\ RoundTripped
     /\ ~empty(orig)
     /\ ~ResourceFailure
     /\ ~U64Less(maxUncompressedLength(codec),
                 U64(computeChainDataLength(orig)))
     /\ \/ uncompressedLength = U64(computeChainDataLength(orig))
        \/ ~needsUncompressedLength(codec))
    => /\ result.status = "ok"
       /\ ChainBytes(result.out) = ChainBytes(orig)

\* a chained input came back, through ZlibCodec with no declared length, in
\* more than one output buffer
C1_RoundTripReached ==
    /\ RoundTripped
    /\ codec.class = "ZlibCodec"
    /\ isChained(orig)
    /\ ~empty(orig)
    /\ uncompressedLength = UNKNOWN_UNCOMPRESSED_LENGTH
    /\ result.status = "ok"
    /\ isChained(result.out)
    /\ ChainBytes(result.out) = ChainBytes(orig)

\* C2 as the specification states it: for every variant compress(empty),
\* uncompress(empty, Unknown) and uncompress(empty, 0) return an empty chain
\* and uncompress(empty, 5) fails with the invalid-length error, the
\* variant's routine never being invoked.
C2_EmptyEveryVariant ==
    (pc = "idle" /\ codec.present /\ empty(data)) =>
        /\ op = "compress" => result = Return(EmptyChain) /\ NotDelegated
        /\ (op = "uncompress"
            /\ uncompressedLength \in {UNKNOWN_UNCOMPRESSED_LENGTH, U64(0)})
           => result = Return(EmptyChain) /\ NotDelegated
        /\ (op = "uncompress" /\ uncompressedLength = U64(5))
           => /\ result = Throw("runtime_error",
                                "Codec: invalid uncompressed length")
              /\ NotDelegated

\* C2: for every variant compress(empty) and uncompress(empty, 0) return an
\* empty chain and uncompress(empty, 5) fails with the invalid-length error;
\* uncompress(empty, Unknown) returns an empty chain for the variants that do
\* not need the length and fails with InvalidArgument for the one that does;
\* in none of these cases is the variant's routine invoked.
C2_Empty ==
    (pc = "idle" /\ codec.present /\ empty(data)) =>
        /\ op = "compress" => result = Return(EmptyChain) /\ NotDelegated
        /\ (op = "uncompress" /\ uncompressedLength = U64(0))
           => result = Return(EmptyChain) /\ NotDelegated
        /\ (op = "uncompress"
            /\ uncompressedLength = UNKNOWN_UNCOMPRESSED_LENGTH)
           => /\ result = IF needsUncompressedLength(codec)
                          THEN Throw("invalid_argument",
                                     "Codec: uncompressed length required")
                          ELSE Return(EmptyChain)
              /\ NotDelegated
        /\ (op = "uncompress" /\ uncompressedLength = U64(5))
           => /\ result = Throw("runtime_error",
                                "Codec: invalid uncompressed length")
              /\ NotDelegated

\* a chain of several empty segments was refused with a declared length of 5
C2_EmptyReached ==
    /\ Ended("uncompress")
    /\ isChained(data)
    /\ empty(data)
    /\ uncompressedLength = U64(5)
    /\ result.what = "Codec: invalid uncompressed length"

\* C3 as the specification states it: for every variant and every input,
\* uncompress with the declared length maxUncompressedLength() + 1 fails with
\* the length-too-large error.
C3_CeilingEveryVariant ==
    (/\ Ended("uncompress")
     /\ uncompressedLength = U64Succ(maxUncompressedLength(codec)))
    => result = Throw("runtime_error", "Codec: uncompressed length too large")

\* C3: lengths are 64-bit unsigned values and the default ceiling is the
\* largest of them minus one; uncompress with the declared length
\* maxUncompressedLength() + 1 fails with the length-too-large error, before
\* the variant's routine, for the variants whose ceiling is below the
\* default; for the variants with the default ceiling that length is the
\* Unknown sentinel itself and the call does not fail with that error.
C3_Ceiling ==
    /\ (codec.present /\ codec.class \in {"NoCompressionCodec", "ZlibCodec"})
       => U64Succ(maxUncompressedLength(codec)) = UNKNOWN_UNCOMPRESSED_LENGTH
    /\ (codec.present /\ codec.class \in {"LZ4Codec", "SnappyCodec"})
       => U64Less(maxUncompressedLength(codec), U64Pred(UINT64_MAX))
    /\ (/\ Ended("uncompress")
        /\ uncompressedLength = U64Succ(maxUncompressedLength(codec)))
       => IF uncompressedLength # UNKNOWN_UNCOMPRESSED_LENGTH
          THEN /\ result = Throw("runtime_error",
                                 "Codec: uncompressed length too large")
               /\ NotDelegated
          ELSE result.what # "Codec: uncompressed length too large"

\* SnappyCodec refused a non-empty input declared one byte above 2^32 - 1
C3_CeilingReached ==
    /\ Ended("uncompress")
    /\ codec.class = "SnappyCodec"
    /\ ~empty(data)
    /\ uncompressedLength = U64Succ(UINT32_MAX)
    /\ result.what = "Codec: uncompressed length too large"

\* C4: in uncompress, for any input, empty or not, a declared length of
\* Unknown on a variant that needs the length fails with InvalidArgument and
\* a known declared length above maxUncompressedLength() fails with the
\* length-too-large error; both happen before the empty-input test and
\* without the variant's routine or the algorithm being invoked.
C4_ValidationFirst ==
    op = "uncompress" =>
        /\ (/\ uncompressedLength = UNKNOWN_UNCOMPRESSED_LENGTH
            /\ needsUncompressedLength(codec))
           => /\ pc = "idle"
              /\ result = Throw("invalid_argument",
                                "Codec: uncompressed length required")
              /\ ~hist.emptyChecked
              /\ NotDelegated
        /\ (/\ uncompressedLength # UNKNOWN_UNCOMPRESSED_LENGTH
            /\ U64Less(maxUncompressedLength(codec), uncompressedLength))
           => /\ pc = "idle"
              /\ result = Throw("runtime_error",
                                "Codec: uncompressed length too large")
              /\ ~hist.emptyChecked
              /\ NotDelegated
        /\ hist.routine => hist.emptyChecked

\* an empty input with no declared length was refused by LZ4Codec
C4_ValidationReached ==
    /\ Ended("uncompress")
    /\ codec.class = "LZ4Codec"
    /\ empty(data)
    /\ uncompressedLength = UNKNOWN_UNCOMPRESSED_LENGTH
    /\ result.status = "invalid_argument"
    /\ ~hist.emptyChecked

\* the bytes of the input the algorithm is handed while compressing: all of
\* them, in chain order, each once
FedInOrder ==
    /\ (/\ Ended("compress")
        /\ result.status = "ok"
        /\ ~empty(data)
        /\ codec.class # "NoCompressionCodec")
       => /\ hist.fed = ChainBytes(data)
          /\ hist.consumed = computeChainDataLength(data)
    /\ (op = "compress" /\ pc \in {"doCompress:for", "doCompress:while",
                                   "doCompress:finish"})
       => /\ hist.fed = ChainBytes(SubSeq(data, 1, range))
          /\ hist.consumed <= RLen(hist.fed)
          /\ pc # "doCompress:while" => hist.consumed = RLen(hist.fed)

\* C5 as the specification states it: for every variant and every byte
\* sequence B, compress of B in many small segments, empty ones among them,
\* and of B in one segment both return what uncompresses to exactly B, and
\* the algorithm is handed the input segments' bytes in chain order, each
\* once.
C5_FragmentsAnyLength ==
    /\ FedInOrder
    /\ (/\ RoundTripped
        /\ ~ResourceFailure
        /\ uncompressedLength = U64(computeChainDataLength(orig)))
       => /\ result.status = "ok"
          /\ ChainBytes(result.out) = ChainBytes(orig)

\* C5: for every variant and every byte sequence B not longer than the
\* variant's maxUncompressedLength(), compress of B in many small segments,
\* empty ones among them, and of B in one segment both return what
\* uncompresses to exactly B, and the algorithm is handed the input
\* segments' bytes in chain order, each once.
C5_Fragments ==
    /\ FedInOrder
    /\ (/\ RoundTripped
        /\ ~ResourceFailure
        /\ ~U64Less(maxUncompressedLength(codec),
                    U64(computeChainDataLength(orig)))
        /\ uncompressedLength = U64(computeChainDataLength(orig)))
       => /\ result.status = "ok"
          /\ ChainBytes(result.out) = ChainBytes(orig)

\* two bytes with an empty segment between them came back through SnappyCodec
C5_FragmentsReached ==
    /\ RoundTripped
    /\ codec.class = "SnappyCodec"
    /\ Len(orig) = 3
    /\ orig[1] # << >> /\ orig[2] = << >> /\ orig[3] # << >>
    /\ uncompressedLength = U64(computeChainDataLength(orig))
    /\ result.status = "ok"
    /\ ChainBytes(result.out) = ChainBytes(orig)

\* C6: NoCompressionCodec is constructed exactly for the three hints and the
\* number 0; ZlibCodec is constructed exactly for the three hints, which
\* resolve to 1, Z_DEFAULT_COMPRESSION and 9, and for the numbers in 0..9 and
\* Z_DEFAULT_COMPRESSION, which it keeps unchanged (so 9 resolves as Best
\* does); every other level fails with InvalidArgument and yields no codec.
C6_Levels ==
    Ended("getCodec") =>
        /\ hist.tag = NO_COMPRESSION =>
            IF hist.level.kind # "NUMERIC" \/ hist.level.n = 0
            THEN /\ result.status = "ok"
                 /\ codec.present
                 /\ codec.class = "NoCompressionCodec"
            ELSE result.status = "invalid_argument" /\ ~codec.present
        /\ hist.tag = ZLIB =>
            IF \/ hist.level.kind # "NUMERIC"
               \/ hist.level.n \in 0..9
               \/ hist.level.n = Z_DEFAULT_COMPRESSION
            THEN /\ result.status = "ok"
                 /\ codec.present
                 /\ codec.class = "ZlibCodec"
                 /\ codec.level_ =
                        CASE hist.level.kind = "FASTEST" -> 1
                          [] hist.level.kind = "DEFAULT" -> Z_DEFAULT_COMPRESSION
                          [] hist.level.kind = "BEST" -> 9
                          [] OTHER -> hist.level.n
            ELSE result.status = "invalid_argument" /\ ~codec.present

\* level 10 was refused for ZLIB
C6_LevelsReached ==
    /\ Ended("getCodec")
    /\ hist.tag = ZLIB
    /\ hist.level = Numeric(10)
    /\ result.status = "invalid_argument"
    /\ ~codec.present

\* C7: for every codec type t, getCodec(t, Default) returns a codec whose
\* type() is t; for every tag outside the enumeration getCodec fails with
\* InvalidArgument and constructs nothing.
C7_Registry ==
    Ended("getCodec") =>
        /\ (hist.tag \in 0..(NUM_CODEC_TYPES - 1)
            /\ hist.level = COMPRESSION_LEVEL_DEFAULT)
           => /\ result.status = "ok"
              /\ codec.present
              /\ type(codec) = hist.tag
        /\ codec.present => type(codec) = hist.tag
        /\ hist.tag \notin 0..(NUM_CODEC_TYPES - 1)
           => /\ result = Throw("invalid_argument",
                                "Compression type not supported")
              /\ ~codec.present

\* the tag after the last codec type was refused
C7_RegistryReached ==
    /\ Ended("getCodec")
    /\ hist.tag = NUM_CODEC_TYPES
    /\ result.status = "invalid_argument"
    /\ ~codec.present

\* C8: for every non-empty input D, NoCompressionCodec's compress returns
\* the bytes of D, and its uncompress(D, L) returns the bytes of D when L is
\* Unknown or the total length of D and fails with the invalid-length error
\* for every other known L up to the ceiling.
C8_NoCompression ==
    (pc = "idle" /\ codec.class = "NoCompressionCodec" /\ ~empty(data)) =>
        /\ op = "compress" => result = Return(data)
        /\ op = "uncompress" =>
            IF \/ uncompressedLength = UNKNOWN_UNCOMPRESSED_LENGTH
               \/ uncompressedLength = U64(computeChainDataLength(data))
            THEN /\ result.status = "ok"
                 /\ ChainBytes(result.out) = ChainBytes(data)
            ELSE ~U64Less(maxUncompressedLength(codec), uncompressedLength)
                 => result = Throw("runtime_error",
                        "NoCompressionCodec: invalid uncompressed length")

\* an 11-byte input was refused with a declared length of 5
C8_NoCompressionReached ==
    /\ Ended("uncompress")
    /\ codec.class = "NoCompressionCodec"
    /\ computeChainDataLength(data) = 11
    /\ uncompressedLength = U64(5)
    /\ result.what = "NoCompressionCodec: invalid uncompressed length"

\* C9 as the specification states it: for every variant a compress and an
\* uncompress of a non-empty chain that return, return a non-empty chain.
C9_NonEmptyEveryCall ==
    (/\ pc = "idle"
     /\ op \in {"compress", "uncompress"}
     /\ ~empty(data)
     /\ result.status = "ok")
    => ~empty(result.out)

\* C9: for every variant a compress of a non-empty chain that returns,
\* returns a non-empty chain, and so does an uncompress of what compress
\* returned for a non-empty chain and every uncompress of NoCompressionCodec;
\* an uncompress of another non-empty input returns an empty chain when the
\* input encodes no bytes, the declared length being 0 or Unknown.
C9_NonEmpty ==
    (pc = "idle" /\ ~empty(data) /\ result.status = "ok") =>
        /\ op = "compress" => ~empty(result.out)
        /\ (op = "uncompress" /\ codec.class = "NoCompressionCodec")
           => ~empty(result.out)
        /\ (op = "uncompress" /\ hist.roundTrip /\ ~empty(orig))
           => ~empty(result.out)
        /\ (op = "uncompress" /\ empty(result.out))
           => /\ hist.routine
              /\ uncompressedLength \in {UNKNOWN_UNCOMPRESSED_LENGTH, U64(0)}

\* SnappyCodec returned an empty chain for a non-empty input
C9_NonEmptyReached ==
    /\ Ended("uncompress")
    /\ codec.class = "SnappyCodec"
    /\ ~empty(data)
    /\ result.status = "ok"
    /\ empty(result.out)

\* C10: in ZlibCodec's uncompress, once inflate has returned Z_STREAM_END,
\* the call fails with RuntimeError and returns nothing when an input byte is
\* left, in the current segment or in a later one; empty segments that follow
\* are passed over without error; inflate is not called again.
C10_JunkAfterEnd ==
    (op = "uncompress" /\ codec.class = "ZlibCodec") =>
        /\ ~hist.afterEnd
        /\ streamEnd => hist.endSeen
        /\ (pc = "idle" /\ hist.endSeen) =>
            IF hist.consumed < computeChainDataLength(data)
            THEN result = Throw("runtime_error",
                                "ZlibCodec: junk after end of data")
            ELSE /\ result.what \in {"", "ZlibCodec: invalid uncompressed length"}
                 /\ uncompressedLength = UNKNOWN_UNCOMPRESSED_LENGTH
                    => result.status = "ok"
        /\ (pc = "idle" /\ result.what = "ZlibCodec: junk after end of data")
           => hist.endSeen /\ hist.consumed < computeChainDataLength(data)

\* a byte behind an empty segment that follows the end mark was refused
C10_JunkReached ==
    /\ Ended("uncompress")
    /\ codec.class = "ZlibCodec"
    /\ Len(data) = 3
    /\ data[1] # << >> /\ data[2] = << >> /\ data[3] # << >>
    /\ hist.endSeen
    /\ hist.consumed = RLen(data[1])
    /\ result = Throw("runtime_error", "ZlibCodec: junk after end of data")

\* C11: ZlibCodec's uncompress with a known declared length L returns a
\* chain only if the stream was completed with total_out equal to L, and
\* the chain then holds L bytes; a stream that was completed, with nothing
\* after it, at fewer or more bytes than L is refused with a runtime error
\* and nothing is returned.
C11_DeclaredLength ==
    (/\ Ended("uncompress")
     /\ codec.class = "ZlibCodec"
     /\ hist.routine
     /\ uncompressedLength # UNKNOWN_UNCOMPRESSED_LENGTH)
    => /\ result.status = "ok"
          => /\ hist.endSeen
             /\ U64(hist.produced) = uncompressedLength
             /\ U64(computeChainDataLength(result.out)) = uncompressedLength
       /\ (/\ hist.endSeen
           /\ U64(hist.produced) # uncompressedLength
           /\ ~ResourceFailure)
          => /\ result.status = "runtime_error"
             /\ result.out = << >>
             /\ hist.consumed = computeChainDataLength(data)
                => result.what = "ZlibCodec: invalid uncompressed length"

\* a stream cut in two segments that ends after one byte was refused for a
\* declared length of 0, and the same kind of stream for a declared length
\* of 2 would be refused too
C11_DeclaredLengthReached ==
    /\ Ended("uncompress")
    /\ codec.class = "ZlibCodec"
    /\ hist.endSeen
    /\ Len(data) = 2
    /\ hist.consumed = computeChainDataLength(data)
    /\ hist.produced = 1
    /\ uncompressedLength = U64(0)
    /\ result = Throw("runtime_error", "ZlibCodec: invalid uncompressed length")
    /\ hist.ends = 1

\* C12: two callers use one codec object, each running between any two
\* steps of the other.  No step of a call writes the codec object; and any
\* two calls with the same arguments, however they were interleaved with
\* each other and with the callers' other calls, and a call that ran alone
\* among them, end with the same result (unless memory was wanting or lz4
\* read past its input).
C12_Interleaved ==
    /\ [](( /\ pc = "idle" /\ parked.pc = "idle"
            /\ op \in {"compress", "uncompress"}
            /\ parked.op = op
            /\ parked.data = data
            /\ parked.uncompressedLength = uncompressedLength
            /\ ~Undecided(result) /\ ~Undecided(parked.result))
          => result = parked.result)
    /\ [][codec.present => codec' = codec]_vars

\* a ZlibCodec compress call of a chain of two segments has returned while
\* the other caller's call with the same chain stands in the middle of its
\* deflate loop
C12_InterleavedReached ==
    /\ Ended("compress")
    /\ codec.class = "ZlibCodec"
    /\ result.status = "ok"
    /\ Len(data) = 2 /\ computeChainDataLength(data) = 1
    /\ parked.op = "compress"
    /\ parked.data = data
    /\ parked.pc = "doCompress:finish"
    /\ parked.hist.algo >= 1

\* C13: no step of a compress or uncompress call, of any variant, whether
\* the call goes on, returns or fails, changes the caller's input chain: it
\* keeps its segments, their order and their bytes.
C13_InputReadOnly == [][pc # "idle" => data' = data]_vars

\* LZ4Codec has compressed a chain of three segments, handing the primitive
\* their bytes as one buffer, and the caller's chain still has three
\* segments
C13_InputReadOnlyReached ==
    /\ Ended("compress")
    /\ codec.class = "LZ4Codec"
    /\ result.status = "ok"
    /\ Len(data) = 3
    /\ computeChainDataLength(data) = 2
    /\ hist.fed = ChainBytes(data)
    /\ hist.algo = 1

\* the current call is a ZlibCodec routine past its deflateInit / inflateInit
InZlibRoutine ==
    pc \in {"doCompress:for", "doCompress:while", "doCompress:finish",
            "doUncompress:for", "doUncompress:while", "doUncompress:drain"}

\* C14: a ZlibCodec call whose deflateInit / inflateInit succeeded calls
\* deflateEnd / inflateEnd exactly once, not before it ends and on every
\* way it ends: the return, a decode error, junk after the end, a declared
\* length that does not match, and an output buffer that cannot be had.
\* When the initialisation fails the call throws a runtime error and the
\* release is not called.  A release that reports discarded data is let
\* pass when the call did not succeed, and the call then ends with its own
\* failure; any other result than that and Z_OK aborts.
C14_Release ==
    /\ InZlibRoutine => hist.inits = 1 /\ hist.ends = 0
    /\ (/\ pc = "idle"
        /\ op \in {"compress", "uncompress"}
        /\ codec.class = "ZlibCodec"
        /\ hist.routine)
       => /\ hist.inits = 1
             => /\ hist.ends = 1
                /\ hist.endRc \in {"Z_OK", "Z_DATA_ERROR"}
                /\ hist.endRc = "Z_DATA_ERROR"
                   => result.status \notin {"ok", "check_failed"}
                /\ result.status = "check_failed"
                   => hist.endRc \notin {"Z_OK", "Z_DATA_ERROR"}
          /\ hist.inits = 0
             => /\ hist.ends = 0
                /\ result.status = "runtime_error"
                /\ result.what = (IF op = "compress"
                                  THEN "ZlibCodec: deflateInit error"
                                  ELSE "ZlibCodec: inflateInit error")

\* a compress call that had handed deflate input could not have its next
\* output buffer: deflateEnd was called once, reported discarded data, and
\* the call ended with the allocation failure
C14_ReleaseReached ==
    /\ Ended("compress")
    /\ codec.class = "ZlibCodec"
    /\ hist.inits = 1 /\ hist.ends = 1
    /\ hist.consumed > 0
    /\ hist.endRc = "Z_DATA_ERROR"
    /\ result = Throw("bad_alloc", "std::bad_alloc")

\* C15: every ZlibCodec compress and uncompress call that is left running
\* ends.  It calls deflate / inflate no more often than once for each byte
\* consumed or produced and once more; when the input ends before the
\* stream does, the call ends with a runtime error; a compress call ends
\* with the stream completed and returns.
C15_Terminates ==
    /\ (ZlibRunning ~> pc = "idle")
    /\ [](codec.class = "ZlibCodec"
           => /\ hist.algo <= hist.consumed + hist.produced + 1
              /\ hist.algo < MaxAlgo)
    /\ []((/\ Ended("uncompress") /\ codec.class = "ZlibCodec"
            /\ hist.routine /\ ~hist.endSeen /\ ~ResourceFailure)
          => result.status = "runtime_error")
    /\ []((/\ Ended("compress") /\ codec.class = "ZlibCodec"
            /\ hist.routine /\ ~ResourceFailure)
          => result.status = "ok")

\* an uncompress call was given two segments that hold a stream without its
\* end; inflate was called until it could make no progress and the call
\* ended with a runtime error
C15_TerminatesReached ==
    /\ Ended("uncompress")
    /\ codec.class = "ZlibCodec"
    /\ Len(data) = 2
    /\ hist.consumed = computeChainDataLength(data)
    /\ hist.consumed = 2
    /\ ~hist.endSeen
    /\ hist.algo >= 3
    /\ result = Throw("runtime_error", "ZlibCodec: inflate error")

\* C16: in a ZlibCodec call the check of addOutputBuffer never fails;
\* deflate / inflate is never called with no output space; while the call
\* runs a step adds at most one buffer, adds it only when the space of the
\* active buffer is exactly used up, adds it as the last one and makes it
\* the active one, and leaves every buffer already in the chain with its
\* identity, its size and the bytes written to it so far; when the call
\* returns, every buffer but the last is handed back as it was and the
\* last one is no longer than it was made.
C16_GrowOnExhaustion ==
    /\ [](result.what # "CHECK_EQ(stream->avail_out, 0)")
    /\ []((codec.class = "ZlibCodec" /\ hist.algo > 0) => hist.room > 0)
    /\ [][(InZlibRoutine /\ pc' # "idle")
           => /\ Len(out') \in {Len(out), Len(out) + 1}
              /\ Len(out') = Len(out) + 1
                    => /\ stream.avail_out = 0
                       /\ stream'.next_out = out'[Len(out')].id
                       /\ \A i \in 1..Len(out) :
                             out[i].id # out'[Len(out')].id
              /\ \A i \in 1..Len(out) :
                    /\ out'[i].id = out[i].id
                    /\ out'[i].length = out[i].length
                    /\ RTake(out'[i].w, RLen(out[i].w)) = out[i].w]_vars
    /\ [][(InZlibRoutine /\ pc' = "idle" /\ result'.status = "ok")
           => /\ Len(result'.out) \in {Len(out), Len(out) + 1}
              /\ Len(result'.out) = Len(out) + 1 => stream.avail_out = 0
              /\ \A i \in 1..Len(out) :
                    IF i < Len(result'.out)
                    THEN result'.out[i] = BufBytes(out[i])
                    ELSE /\ RLen(result'.out[i]) <= out[i].length
                         /\ RTake(result'.out[i], RLen(out[i].w))
                                = out[i].w]_vars

\* an uncompress call has filled its first buffer, has added a second one
\* behind it and inflate has written into the second
C16_GrowOnExhaustionReached ==
    /\ InZlibRoutine
    /\ op = "uncompress"
    /\ Len(out) = 2
    /\ out[1].length > 0
    /\ RLen(out[1].w) = out[1].length
    /\ out[2].w # << >>
    /\ stream.next_out = out[2].id
    /\ hist.algo >= 2

\* the sizes of the buffers of an output chain, added up
RECURSIVE ChainCapacity(_)
ChainCapacity(head) ==
    IF head = << >> THEN 0 ELSE head[1].length + ChainCapacity(Tail(head))

\* no byte of the chain is one that nothing wrote
AllWritten(chain) ==
    \A i \in 1..Len(chain) :
        \A j \in 1..Len(chain[i]) : chain[i][j][1] # Indeterminate

\* C17: while a ZlibCodec call runs, the sizes of its output buffers added
\* up, less avail_out, are total_out; every buffer but the last is full and
\* the last holds its size less avail_out bytes.  A chain that is returned
\* has total_out bytes, each of them written by deflate / inflate, and they
\* are the bytes the algorithm makes of the input, in that order.
C17_OutputAccounting ==
    /\ InZlibRoutine
        => /\ out # << >>
           /\ ChainCapacity(out) - stream.avail_out = stream.total_out
           /\ stream.next_out = out[Len(out)].id
           /\ \A i \in 1..Len(out) :
                 RLen(out[i].w) = IF i < Len(out) THEN out[i].length
                                  ELSE out[i].length - stream.avail_out
    /\ (/\ pc = "idle" /\ op \in {"compress", "uncompress"}
        /\ codec.class = "ZlibCodec" /\ hist.routine
        /\ result.status = "ok")
        => /\ computeChainDataLength(result.out) = hist.produced
           /\ AllWritten(result.out)
           /\ ChainBytes(result.out)
                = IF op = "compress"
                  THEN RCat(RMap(ZEnc, hist.fed), RRun(Z_EOS, 1))
                  ELSE RMap(ZDec, RTake(hist.fed, hist.produced))

\* a compress call returned a chain of more than one buffer, the last of
\* them trimmed to less than the default size
C17_OutputAccountingReached ==
    /\ Ended("compress")
    /\ codec.class = "ZlibCodec"
    /\ result.status = "ok"
    /\ Len(result.out) >= 2
    /\ RLen(result.out[1]) = defaultBufferLength
    /\ RLen(result.out[Len(result.out)]) \in 1..(defaultBufferLength - 1)
    /\ hist.produced > maxSingleStepLength

\* C18: an LZ4Codec is constructed for Fastest, Default and 1 in the fast
\* mode and for Best and 2 in the high-compression mode (the mode is the
\* codec's highCompression_, fixed at construction), every other number is
\* refused with InvalidArgument; a codec in the fast mode compresses with
\* LZ4_compress and one in the high-compression mode with LZ4_compressHC.
C18_LZ4Mode ==
    /\ (Ended("getCodec") /\ hist.tag = LZ4)
        => IF hist.level \in {COMPRESSION_LEVEL_FASTEST,
                              COMPRESSION_LEVEL_DEFAULT, Numeric(1)}
           THEN /\ result.status = "ok"
                /\ codec.present /\ codec.class = "LZ4Codec"
                /\ ~codec.highCompression_
           ELSE IF hist.level \in {COMPRESSION_LEVEL_BEST, Numeric(2)}
           THEN /\ result.status = "ok"
                /\ codec.present /\ codec.class = "LZ4Codec"
                /\ codec.highCompression_
           ELSE result.status = "invalid_argument" /\ ~codec.present
    /\ (Ended("compress") /\ codec.class = "LZ4Codec" /\ hist.routine)
        => hist.primitive = IF codec.highCompression_ THEN "LZ4_compressHC"
                            ELSE "LZ4_compress"

\* C19 as stated: the first output buffer of a ZlibCodec call has the size
\* of deflateBound of the input length (compress) or of the declared length
\* (uncompress) when that value is known and below 64 MiB, and 4 MiB
\* otherwise; every later buffer has 4 MiB; no buffer is larger than 64 MiB.
C19_SizingBelowCeiling ==
    InZlibRoutine
    => /\ out[1].length =
            IF op = "compress"
            THEN IF deflateBound(computeChainDataLength(data))
                        < maxSingleStepLength
                 THEN deflateBound(computeChainDataLength(data))
                 ELSE defaultBufferLength
            ELSE IF /\ uncompressedLength # UNKNOWN_UNCOMPRESSED_LENGTH
                    /\ U64Less(uncompressedLength, U64(maxSingleStepLength))
                 THEN U64Nat(uncompressedLength)
                 ELSE defaultBufferLength
       /\ \A i \in 2..Len(out) : out[i].length = defaultBufferLength
       /\ \A i \in 1..Len(out) : out[i].length <= maxSingleStepLength

\* C19: the first output buffer of a ZlibCodec call has the size of
\* deflateBound of the input length (compress) or of the declared length
\* (uncompress) when that value is known and at most 64 MiB, and 4 MiB
\* otherwise; every later buffer has 4 MiB; no buffer is larger than
\* 64 MiB, and no segment of a returned chain is.
C19_Sizing ==
    /\ InZlibRoutine
        => /\ out[1].length =
                IF op = "compress"
                THEN IF deflateBound(computeChainDataLength(data))
                            <= maxSingleStepLength
                     THEN deflateBound(computeChainDataLength(data))
                     ELSE defaultBufferLength
                ELSE IF /\ uncompressedLength # UNKNOWN_UNCOMPRESSED_LENGTH
                        /\ ~U64Less(U64(maxSingleStepLength),
                                    uncompressedLength)
                     THEN U64Nat(uncompressedLength)
                     ELSE defaultBufferLength
           /\ \A i \in 2..Len(out) : out[i].length = defaultBufferLength
           /\ \A i \in 1..Len(out) : out[i].length <= maxSingleStepLength
    /\ (pc = "idle" /\ codec.class = "ZlibCodec" /\ result.status = "ok")
        => \A i \in 1..Len(result.out) :
              RLen(result.out[i]) <= maxSingleStepLength

\* an uncompress call with a declared length of exactly 64 MiB has made a
\* first buffer of 64 MiB and inflate has written into it
C19_SizingReached ==
    /\ InZlibRoutine
    /\ op = "uncompress"
    /\ uncompressedLength = U64(maxSingleStepLength)
    /\ out[1].length = maxSingleStepLength
    /\ out[1].w # << >>

====
